---- MODULE Spec2Model ----
(***************************************************************************)
(* Model of the PID-1 service supervisor of                                *)
(* exercises/advanced/09_custom_init/src/init_advanced.c.                  *)
(*                                                                         *)
(* The state is the service table, the three sig_atomic_t flags, the       *)
(* kernel's process table as far as the supervisor's children are          *)
(* concerned, and the position of main().  Signal handlers and child       *)
(* exits are separate actions that interleave with the steps of main().    *)
(*                                                                         *)
(* A child that has exited stays in the process table as a zombie until    *)
(* the supervisor waits for it; kill(pid, 0) succeeds on a zombie, so      *)
(* is_running() is true of it.  Pids of reaped processes are free and      *)
(* fork() may hand them out again.                                         *)
(*                                                                         *)
(* Four specifications share the next-state relation of main(): Spec (the  *)
(* default configuration, any number of shutdown signals), SpecWatchdog    *)
(* (the watchdog enabled), SpecOneSignal (at most one shutdown signal) and *)
(* SpecFair (main() keeps being scheduled).  SpecLoad is load_services on  *)
(* every small directory and on one that holds more scripts than the       *)
(* table has records, and SpecCalls is start_service and restart_service   *)
(* called on the services of a table in every order.                       *)
(* History variables record what the calls did: the forks, the command     *)
(* check of the last start_service call, the signals stop_service sent,    *)
(* the writes to the watchdog device and the steps of do_shutdown.         *)
(***************************************************************************)
EXTENDS Integers, Sequences, FiniteSets, TLC

\* ------------------------------------------------------------------ bounds

\* Number of entries of the service table (service_count after loading).
NumServices == 2

\* Size of the pid namespace available to the supervisor's children.
NumPids == 2

\* Largest max_restarts a service definition carries.
MaxRestarts == 1

\* --------------------------------------------------------- program constants

RUNLEVEL_SINGLE == 1
RUNLEVEL_NETWORK == 3
RUNLEVEL_FULL == 5

SVC_STOPPED == 0
SVC_STARTING == 1
SVC_RUNNING == 2
SVC_STOPPING == 3
SVC_FAILED == 4

SVC_FLAG_RESPAWN == 1
SVC_FLAG_WAIT == 2
SVC_FLAG_CRITICAL == 4

\* Number of 100 ms polls stop_service makes before the forced kill.
StopPolls == 50

\* ------------------------------------------------------------------- state

VARIABLES
    services,            \* services[1..service_count]: the service table
    current_runlevel,
    target_runlevel,
    shutdown_requested,
    reboot_requested,
    child_died,
    procs,               \* process table: pid -> [st, owner]
    pc,                  \* position of main()
    i,                   \* loop index of start_all/stop_all/check_services
    polls,               \* loop index of stop_service's poll loop
    launches,            \* history: forks made for each service
    reboot_cmd,          \* history: argument of the reboot() call, or "none"
    enable_watchdog,     \* config.enable_watchdog
    watchdog_fd,
    exit_code,           \* what main() returned, or -1 while it has not
    shutdown_signals,    \* environment: the shutdown signals it delivers
    last_start,          \* history: the start_service call just made
    stop_sigs,           \* history: signals sent by the stop_service call
    watchdog_log,        \* history: operations on the watchdog device
    shutdown_steps,      \* history: steps do_shutdown has completed
    dirents,             \* load_services: the directory entries still to read
    names                \* load_services: the names of the services added

vars == <<services, current_runlevel, target_runlevel, shutdown_requested,
          reboot_requested, child_died, procs, pc, i, polls, launches,
          reboot_cmd, enable_watchdog, watchdog_fd, exit_code,
          shutdown_signals, last_start, stop_sigs, watchdog_log,
          shutdown_steps, dirents, names>>

\* What load_services works on.
loading == <<dirents, names>>

\* The history variables no step of reap_children or of a handler touches.
history == <<last_start, stop_sigs, watchdog_log, shutdown_steps>>

\* The watchdog and exit state, set at the ends of main().
ends == <<enable_watchdog, watchdog_fd, exit_code>>

service_count == NumServices

Svcs == 1..service_count

Pids == 1..NumPids

\* Runlevels a service file can carry (runlevel=...), around the target.
ServiceRunlevels == {RUNLEVEL_NETWORK, RUNLEVEL_FULL}

\* The flags start_service and check_services read.
ServiceFlags == {SVC_FLAG_RESPAWN, SVC_FLAG_WAIT, SVC_FLAG_CRITICAL}

\* A service record as parse_service_file / load_services leave it: the
\* definition fields set, state STOPPED, no pid, restart_count 0.
ServiceDef(rl, fl, mr) ==
    [runlevel |-> rl, flags |-> fl, state |-> SVC_STOPPED, pid |-> 0,
     restart_count |-> 0, max_restarts |-> mr]

\* The definitions the service table is drawn from: a daemon, a WAIT
\* one-shot, RESPAWN services with every budget up to MaxRestarts and a
\* RESPAWN and CRITICAL service, all at the target runlevel, and a RESPAWN
\* service above it.  CRITICAL is read only once the budget is exhausted, so
\* the CRITICAL service carries the budget that is exhausted at once.
ServiceDefs ==
    {ServiceDef(RUNLEVEL_NETWORK, fl, 0) :
        fl \in {{}, {SVC_FLAG_WAIT}, {SVC_FLAG_RESPAWN, SVC_FLAG_CRITICAL}}}
    \cup {ServiceDef(RUNLEVEL_NETWORK, {SVC_FLAG_RESPAWN}, mr) :
            mr \in 0..MaxRestarts}
    \cup {ServiceDef(RUNLEVEL_FULL, {SVC_FLAG_RESPAWN}, MaxRestarts)}

\* last_start while main is not at the return of a start_service call.
NoStart ==
    [svc |-> 0, executable |-> TRUE, forked |-> FALSE, result |-> 0,
     status_ok |-> TRUE]

\* The globals as their initialisers leave them, before main() has run.
Fresh ==
    /\ target_runlevel = RUNLEVEL_NETWORK
    /\ shutdown_requested = 0
    /\ reboot_requested = 0
    /\ child_died = 0
    /\ procs = [p \in Pids |-> [st |-> "free", owner |-> 0]]
    /\ i = 0
    /\ polls = 0
    /\ launches = [s \in Svcs |-> 0]
    /\ reboot_cmd = "none"
    /\ watchdog_fd = -1
    /\ exit_code = -1
    /\ last_start = NoStart
    /\ stop_sigs = <<>>
    /\ watchdog_log = <<>>
    /\ shutdown_steps = <<>>
    /\ names = <<>>

\* The state when main() starts, but for the watchdog setting and the
\* environment's signals: the globals as initialised, with the service table
\* that loading will produce and the target runlevel that parse_config reads
\* from the configuration file (runlevel=3).
Globals ==
    /\ services \in [Svcs -> ServiceDefs]
    /\ current_runlevel = RUNLEVEL_SINGLE
    /\ pc = "entry"
    /\ dirents = <<>>
    /\ Fresh

\* The default configuration (watchdog off); the environment may deliver any
\* number of shutdown signals.
Init ==
    /\ Globals
    /\ enable_watchdog = 0
    /\ shutdown_signals = "any"

\* The configuration file holds watchdog=1.
InitWatchdog ==
    /\ Globals
    /\ enable_watchdog = 1
    /\ shutdown_signals = "any"

\* The environment delivers at most one shutdown signal.
InitOneSignal ==
    /\ Globals
    /\ enable_watchdog = 0
    /\ shutdown_signals = "one"

\* The definitions that bear on how long main stays in its loop: a daemon, a
\* WAIT one-shot, a RESPAWN service with the largest budget and a RESPAWN and
\* CRITICAL service.  A smaller budget only ends the respawning sooner, and
\* a service above the target runlevel is never started.
FairDefs ==
    {d \in ServiceDefs :
        /\ d.runlevel = RUNLEVEL_NETWORK
        /\ d.flags = {SVC_FLAG_RESPAWN} => d.max_restarts = MaxRestarts}

\* The default configuration with a service table drawn from FairDefs.
InitFair ==
    /\ Globals
    /\ services \in [Svcs -> FairDefs]
    /\ enable_watchdog = 0
    /\ shutdown_signals = "any"

\* ------------------------------------------------------------ process table

Min(S) == CHOOSE x \in S : \A y \in S : x <= y

\* is_running(): kill(pid, 0) == 0 holds of every process that has not been
\* waited for, a zombie included.
is_running(pid) ==
    IF pid <= 0 THEN FALSE ELSE procs[pid].st # "free"

\* What fork() can return in the parent: a free pid, or -1.  The code only
\* compares pids for equality, so the free pids that no service record holds
\* are interchangeable and the lowest of them stands for all.
ForkResults ==
    LET free == {p \in Pids : procs[p].st = "free"}
        recorded == {services[s].pid : s \in Svcs}
        fresh == free \ recorded
    IN  (free \cap recorded)
        \cup (IF fresh = {} THEN {} ELSE {Min(fresh)})
        \cup {-1}

FreeProc == [st |-> "free", owner |-> 0]

\* waitpid() on pid p: the entry leaves the process table.
Reaped(table, p) == [table EXCEPT ![p] = FreeProc]

\* ------------------------------------------------------------ start_service

\* Faulty variant of respawned: the increment is forgotten.
respawned_uncounted(svc) == svc

\* check_services: restart_count++ after start_service has returned.
respawned(svc) == [svc EXCEPT !.restart_count = @ + 1]

\* start_service: the check that the command exists.  cmd_ok is
\* access(svc->cmd, X_OK) == 0, has_space whether cmd holds a space, and
\* token_ok access() of cmd cut at its first space.  A command without a
\* space passes the check whatever access() said.
command_found(cmd_ok, has_space, token_ok) ==
    cmd_ok \/ ~has_space \/ token_ok

\* What the command check of start_service can meet: the results of the two
\* access() calls and whether the command holds a space.
CommandChecks == [cmd_ok : BOOLEAN, has_space : BOOLEAN, token_ok : BOOLEAN]

\* The outcome of the command check on chk.
passes(chk) == command_found(chk.cmd_ok, chk.has_space, chk.token_ok)

\* Whether the file the command names can be executed: the command itself
\* or, when it carries arguments, its first token.
executable(chk) == chk.cmd_ok \/ (chk.has_space /\ chk.token_ok)

\* Faulty variant of already_running: the test is left out.
already_running_never(svc) == FALSE

\* start_service: the test that makes it return at once.
already_running(svc) == svc.state = SVC_RUNNING

\* Whether start_service reaches fork() and fork() succeeds.
\* x_ok: outcome of the command check; fpid: fork()'s return value.
start_forks(svc, x_ok, fpid) ==
    ~already_running(svc) /\ x_ok /\ fpid > 0

\* Faulty variant of start_blocks: start_service never waits.
start_blocks_never(svc, x_ok, fpid) == FALSE

\* Whether start_service then blocks in waitpid(pid, &status, 0).
start_blocks(svc, x_ok, fpid) ==
    start_forks(svc, x_ok, fpid) /\ SVC_FLAG_WAIT \in svc.flags

\* The service record start_service leaves, up to the waitpid of a WAIT
\* service (where the record is STARTING with the pid recorded).
start_service(svc, x_ok, fpid) ==
    IF already_running(svc) THEN svc
    ELSE IF ~x_ok THEN [svc EXCEPT !.state = SVC_FAILED]
    ELSE IF fpid < 0 THEN [svc EXCEPT !.state = SVC_FAILED]
    ELSE IF SVC_FLAG_WAIT \in svc.flags
         THEN [svc EXCEPT !.state = SVC_STARTING, !.pid = fpid]
         ELSE [svc EXCEPT !.state = SVC_RUNNING, !.pid = fpid]

\* Faulty variant of start_service_waited: a WAIT service that completed is
\* left RUNNING.
start_service_waited_running(svc, status_ok) ==
    IF status_ok THEN [svc EXCEPT !.state = SVC_RUNNING]
                 ELSE [svc EXCEPT !.state = SVC_FAILED]

\* The record after the waitpid of a WAIT service returned; status_ok is
\* WIFEXITED(status) && WEXITSTATUS(status) == 0.
start_service_waited(svc, status_ok) ==
    IF status_ok THEN [svc EXCEPT !.state = SVC_STOPPED]
                 ELSE [svc EXCEPT !.state = SVC_FAILED]

\* What start_service returns, but for a WAIT service whose process was
\* forked: 0 for a service that is RUNNING already and for one started, -1
\* when the command is not found or fork() fails.
start_result(svc, x_ok, fpid) ==
    IF already_running(svc) THEN 0
    ELSE IF ~x_ok THEN -1
    ELSE IF fpid < 0 THEN -1
    ELSE 0

\* What start_service returns after the waitpid of a WAIT service.
start_result_waited(status_ok) == IF status_ok THEN 0 ELSE -1

\* The process table after the fork of start_service for service s.
Forked(s, x_ok, fpid) ==
    IF start_forks(services[s], x_ok, fpid)
    THEN [procs EXCEPT ![fpid] = [st |-> "alive", owner |-> s]]
    ELSE procs

Launched(s, x_ok, fpid) ==
    IF start_forks(services[s], x_ok, fpid)
    THEN [launches EXCEPT ![s] = @ + 1]
    ELSE launches

\* What last_start keeps of the start_service call for service s.
Started(s, chk, fpid) ==
    [svc |-> s, executable |-> executable(chk),
     forked |-> start_forks(services[s], passes(chk), fpid),
     result |-> start_result(services[s], passes(chk), fpid),
     status_ok |-> TRUE]

\* last_start once the waitpid of a WAIT service has returned.
Waited(status_ok) ==
    [last_start EXCEPT !.result = start_result_waited(status_ok),
                       !.status_ok = status_ok]

\* ------------------------------------------------------------------- main

\* The value main() returns when it is not process 1.
not_pid1_status == 1

\* The descriptor open() returns for the watchdog device.
WatchdogFd == 3

\* setup_watchdog: watchdog_fd afterwards; open_ok is whether open() succeeds.
setup_watchdog(open_ok) ==
    IF enable_watchdog = 0 THEN watchdog_fd
    ELSE IF open_ok THEN WatchdogFd ELSE -1

\* Faulty variant of kick_watchdog: the keepalive is written twice.
kick_watchdog_twice(log) ==
    IF watchdog_fd >= 0 THEN log \o <<"k", "k">> ELSE log

\* kick_watchdog: the device log afterwards.
kick_watchdog(log) ==
    IF watchdog_fd >= 0 THEN Append(log, "k") ELSE log

\* stop_watchdog: the device log afterwards.
stop_watchdog(log) ==
    IF watchdog_fd >= 0 THEN log \o <<"V", "close">> ELSE log

\* main() up to start_all_services: the PID-1 check, the handlers, the set-up
\* calls, load_services and the runlevel assignment.
MainEntry ==
    /\ pc = "entry"
    /\ \E is_pid1 \in BOOLEAN, open_ok \in BOOLEAN :
          IF is_pid1
          THEN /\ watchdog_fd' = setup_watchdog(open_ok)
               /\ current_runlevel' = target_runlevel
               /\ pc' = "start_all"
               /\ i' = 1
               /\ UNCHANGED exit_code
          ELSE /\ exit_code' = not_pid1_status
               /\ pc' = "exited"
               /\ UNCHANGED <<watchdog_fd, current_runlevel, i>>
    /\ UNCHANGED <<services, target_runlevel, loading, shutdown_requested,
                   reboot_requested, child_died, procs, polls, launches,
                   reboot_cmd, enable_watchdog, shutdown_signals, history>>

\* Faulty variant of eligible: the comparison is turned around.
eligible_reversed(svc, runlevel) == svc.runlevel >= runlevel

\* start_all_services: whether the loop body starts the service.
eligible(svc, runlevel) == svc.runlevel <= runlevel

\* Faulty variant of start_all_next: a failed start ends the loop.
start_all_next_abort(k, svc) ==
    IF svc.state = SVC_FAILED THEN service_count + 1 ELSE k + 1

\* start_all_services: the index its loop goes on with after service k,
\* which start_service, if called, has left as svc; the value start_service
\* returned is not looked at.
start_all_next(k, svc) == k + 1

\* One iteration of the loop of start_all_services, or its end.
StartAll ==
    /\ pc = "start_all"
    /\ IF i > service_count
       THEN /\ pc' = "loop"
            /\ i' = 0
            /\ last_start' = NoStart
            /\ UNCHANGED <<services, procs, launches>>
       ELSE IF eligible(services[i], current_runlevel)
       THEN \E chk \in CommandChecks, fpid \in ForkResults :
               LET x_ok == passes(chk)
                   started == start_service(services[i], x_ok, fpid)
               IN
               /\ services' = [services EXCEPT ![i] = started]
               /\ procs' = Forked(i, x_ok, fpid)
               /\ launches' = Launched(i, x_ok, fpid)
               /\ last_start' = Started(i, chk, fpid)
               /\ IF start_blocks(services[i], x_ok, fpid)
                  THEN pc' = "start_all_wait" /\ i' = i
                  ELSE pc' = "start_all" /\ i' = start_all_next(i, started)
       ELSE /\ i' = start_all_next(i, services[i])
            /\ last_start' = NoStart
            /\ UNCHANGED <<services, procs, launches, pc>>
    /\ UNCHANGED <<current_runlevel, target_runlevel, loading, shutdown_requested,
                   reboot_requested, child_died, polls, reboot_cmd, ends,
                   shutdown_signals, stop_sigs, watchdog_log, shutdown_steps>>

\* The waitpid of a WAIT service returns, in start_service called by
\* start_all_services or by check_services (followed by restart_count++).
\* The handlers are installed with signal() under _GNU_SOURCE, so a signal
\* that arrives meanwhile restarts the waitpid: it returns only once the
\* child has exited.
StartServiceWait ==
    /\ pc \in {"start_all_wait", "respawn_wait"}
    /\ procs[services[i].pid].st = "zombie"
    /\ \E status_ok \in BOOLEAN :
          LET waited == start_service_waited(services[i], status_ok) IN
          /\ last_start' = Waited(status_ok)
          /\ IF pc = "start_all_wait"
             THEN /\ services' = [services EXCEPT ![i] = waited]
                  /\ pc' = "start_all"
                  /\ i' = start_all_next(i, waited)
             ELSE /\ services' = [services EXCEPT ![i] = respawned(waited)]
                  /\ pc' = "check"
                  /\ i' = i + 1
    /\ procs' = Reaped(procs, services[i].pid)
    /\ UNCHANGED <<current_runlevel, target_runlevel, loading, shutdown_requested,
                   reboot_requested, child_died, polls, launches, reboot_cmd,
                   ends, shutdown_signals, stop_sigs, watchdog_log, shutdown_steps>>

\* Faulty variant of loop_runs: the loop test never reads the flag.
loop_runs_forever(shutdown) == TRUE

\* main: the test of its loop, while (!shutdown_requested).
loop_runs(shutdown) == shutdown = 0

\* The head of the main loop: the loop test, the usleep and the test of
\* child_died.  watchdog_log starts anew with every iteration.
MainLoop ==
    /\ pc = "loop"
    /\ IF ~loop_runs(shutdown_requested)
       THEN pc' = "shutdown" /\ i' = 0
       ELSE IF child_died # 0
       THEN pc' = "reap" /\ i' = 0
       ELSE pc' = "check" /\ i' = 1
    /\ watchdog_log' = <<>>
    /\ UNCHANGED <<services, current_runlevel, target_runlevel, loading,
                   shutdown_requested, reboot_requested, child_died, procs,
                   polls, launches, reboot_cmd, ends, shutdown_signals,
                   last_start, stop_sigs, shutdown_steps>>

\* ------------------------------------------------------------ reap_children

\* Faulty variant of reap_update: the service is STOPPED whatever its state.
reap_update_careless(table, p) ==
    LET match == {s \in Svcs : table[s].pid = p} IN
    IF match = {} THEN table
    ELSE LET s == Min(match) IN
         [table EXCEPT ![s] = [table[s] EXCEPT !.pid = 0,
                                               !.state = SVC_STOPPED]]

\* The service table after reap_children's inner loop for a reaped pid: the
\* first service that records the pid has it cleared and, if RUNNING, is
\* STOPPED.
reap_update(table, p) ==
    LET match == {s \in Svcs : table[s].pid = p} IN
    IF match = {} THEN table
    ELSE LET s == Min(match) IN
         [table EXCEPT ![s] =
             [table[s] EXCEPT !.pid = 0,
                              !.state = IF table[s].state = SVC_RUNNING
                                        THEN SVC_STOPPED ELSE table[s].state]]

\* One waitpid(-1, &status, WNOHANG) of reap_children that returns a pid.
ReapOne ==
    /\ pc = "reap"
    /\ \E p \in Pids :
          /\ procs[p].st = "zombie"
          /\ procs' = Reaped(procs, p)
          /\ services' = reap_update(services, p)
    /\ UNCHANGED <<current_runlevel, target_runlevel, loading, shutdown_requested,
                   reboot_requested, child_died, pc, i, polls, launches,
                   reboot_cmd, ends, shutdown_signals, history>>

\* The waitpid(-1, &status, WNOHANG) that finds no exited child: the loop of
\* reap_children ends.
ReapNone ==
    /\ pc = "reap"
    /\ \A p \in Pids : procs[p].st # "zombie"
    /\ pc' = "reap_clear"
    /\ UNCHANGED <<services, current_runlevel, target_runlevel, loading,
                   shutdown_requested, reboot_requested, child_died, procs, i,
                   polls, launches, reboot_cmd, ends, shutdown_signals,
                   history>>

\* child_died = 0 at the end of reap_children; main goes on to
\* check_services.
ReapClear ==
    /\ pc = "reap_clear"
    /\ child_died' = 0
    /\ pc' = "check"
    /\ i' = 1
    /\ UNCHANGED <<services, current_runlevel, target_runlevel, loading,
                   shutdown_requested, reboot_requested, procs, polls,
                   launches, reboot_cmd, ends, shutdown_signals, history>>

\* ----------------------------------------------------------- check_services

\* Faulty variant of found_dead: the liveness probe is left out.
found_dead_unprobed(svc) == svc.state = SVC_RUNNING

\* check_services: the service is RUNNING and its pid is no process.
found_dead(svc) == svc.state = SVC_RUNNING /\ ~is_running(svc.pid)

\* check_services: the record of a service found dead, before the respawn
\* policy: svc->state = SVC_STOPPED, the pid left as it is.
marked_dead(svc) == [svc EXCEPT !.state = SVC_STOPPED]

\* Faulty variant of respawn_wanted: the RESPAWN flag is not tested.
respawn_wanted_unflagged(svc, shutdown) == shutdown = 0

\* check_services: the test that guards the respawn policy.
respawn_wanted(svc, shutdown) ==
    SVC_FLAG_RESPAWN \in svc.flags /\ shutdown = 0

\* Faulty variant of budget_left: a service that has used its budget is
\* respawned once more.
budget_left_inclusive(svc) == svc.restart_count <= svc.max_restarts

\* Faulty variant of budget_left: restart_count is incremented before the
\* comparison.
budget_left_incremented(svc) == svc.restart_count + 1 < svc.max_restarts

\* check_services: the test of the restart budget.
budget_left(svc) == svc.restart_count < svc.max_restarts

\* Faulty variant of escalates: no service escalates.
escalates_never(svc) == FALSE

\* Faulty variant of escalates: every service escalates.
escalates_always(svc) == TRUE

\* check_services: the escalation of a service that exceeded max_restarts.
escalates(svc) == SVC_FLAG_CRITICAL \in svc.flags

\* One iteration of the loop of check_services up to the tests of
\* shutdown_requested and of the budget, or the end of the loop followed by
\* kick_watchdog.  The tests read shutdown_requested once; what follows
\* them, the sleep before start_service or the marking of the service as
\* FAILED, is a step of its own, so that a signal can arrive in between.
CheckService ==
    /\ pc = "check"
    /\ IF i > service_count
       THEN /\ pc' = "loop"
            /\ i' = 0
            /\ watchdog_log' = kick_watchdog(watchdog_log)
            /\ UNCHANGED services
       ELSE IF ~found_dead(services[i])
       THEN /\ i' = i + 1
            /\ UNCHANGED <<services, pc, watchdog_log>>
       ELSE IF ~respawn_wanted(services[i], shutdown_requested)
       THEN /\ services' = [services EXCEPT ![i] = marked_dead(services[i])]
            /\ i' = i + 1
            /\ UNCHANGED <<pc, watchdog_log>>
       ELSE /\ services' = [services EXCEPT ![i] = marked_dead(services[i])]
            /\ pc' = IF budget_left(services[i])
                     THEN "respawn" ELSE "exhausted"
            /\ UNCHANGED <<i, watchdog_log>>
    /\ last_start' = NoStart
    /\ UNCHANGED <<current_runlevel, target_runlevel, loading, shutdown_requested,
                   reboot_requested, child_died, procs, polls, launches,
                   reboot_cmd, ends, shutdown_signals, stop_sigs,
                   shutdown_steps>>

\* check_services for a service that exceeded max_restarts: the service is
\* FAILED and, if CRITICAL, reboot_requested and shutdown_requested are set.
Exhausted ==
    /\ pc = "exhausted"
    /\ services' = [services EXCEPT ![i].state = SVC_FAILED]
    /\ IF escalates(services[i])
       THEN reboot_requested' = 1 /\ shutdown_requested' = 1
       ELSE UNCHANGED <<shutdown_requested, reboot_requested>>
    /\ i' = i + 1
    /\ pc' = "check"
    /\ UNCHANGED <<current_runlevel, target_runlevel, loading, child_died, procs,
                   polls, launches, reboot_cmd, ends, shutdown_signals,
                   history>>

\* check_services after sleep(restart_delay): start_service and, unless it
\* blocks in waitpid, restart_count++.
Respawn ==
    /\ pc = "respawn"
    /\ \E chk \in CommandChecks, fpid \in ForkResults :
          LET x_ok == passes(chk)
              started == start_service(services[i], x_ok, fpid)
          IN
          /\ procs' = Forked(i, x_ok, fpid)
          /\ launches' = Launched(i, x_ok, fpid)
          /\ last_start' = Started(i, chk, fpid)
          /\ IF start_blocks(services[i], x_ok, fpid)
             THEN /\ services' = [services EXCEPT ![i] = started]
                  /\ pc' = "respawn_wait"
                  /\ i' = i
             ELSE /\ services' = [services EXCEPT ![i] = respawned(started)]
                  /\ pc' = "check"
                  /\ i' = i + 1
    /\ UNCHANGED <<current_runlevel, target_runlevel, loading, shutdown_requested,
                   reboot_requested, child_died, polls, reboot_cmd, ends,
                   shutdown_signals, stop_sigs, watchdog_log, shutdown_steps>>

\* ------------------------------------------------- stop_service, do_shutdown

\* Faulty variant of stop_all_first: the loop starts at the first service.
stop_all_first_lowest == Min(Svcs)

\* stop_all_services: the service its loop starts with.
stop_all_first == service_count

\* do_shutdown: stop_watchdog, then stop_all_services up to its loop.
Shutdown ==
    /\ pc = "shutdown"
    /\ watchdog_log' = stop_watchdog(watchdog_log)
    /\ watchdog_fd' = IF watchdog_fd >= 0 THEN -1 ELSE watchdog_fd
    /\ shutdown_steps' = Append(shutdown_steps, "stop_watchdog")
    /\ pc' = "stop_all"
    /\ i' = stop_all_first
    /\ UNCHANGED <<services, current_runlevel, target_runlevel, loading,
                   shutdown_requested, reboot_requested, child_died, procs,
                   polls, launches, reboot_cmd, enable_watchdog, exit_code,
                   shutdown_signals, last_start, stop_sigs>>

\* Faulty variant of stop_acts: stop_service stops nothing.
stop_acts_never(svc) == FALSE

\* Faulty variant of stop_acts: a FAILED service is stopped as well.
stop_acts_unless_stopped(svc) == svc.state # SVC_STOPPED

\* stop_service: whether it goes past its first test and stops the service.
stop_acts(svc) == svc.state = SVC_RUNNING

\* One iteration of the loop of stop_all_services up to stop_service's
\* kill(pid, SIGTERM), or the end of the loop.
StopAll ==
    /\ pc = "stop_all"
    /\ IF i < 1
       THEN /\ pc' = "bcast_term"
            /\ i' = 0
            /\ stop_sigs' = <<>>
            /\ shutdown_steps' = Append(shutdown_steps, "stop_all_services")
            /\ UNCHANGED <<services, polls>>
       ELSE IF ~stop_acts(services[i])
       THEN /\ i' = i - 1
            /\ stop_sigs' = <<>>
            /\ UNCHANGED <<services, pc, polls, shutdown_steps>>
       ELSE /\ services' = [services EXCEPT ![i].state = SVC_STOPPING]
            /\ stop_sigs' = <<"SIGTERM">>
            /\ pc' = "stop_poll"
            /\ polls' = 0
            /\ i' = i
            /\ UNCHANGED shutdown_steps
    /\ UNCHANGED <<current_runlevel, target_runlevel, loading, shutdown_requested,
                   reboot_requested, child_died, procs, launches, reboot_cmd,
                   ends, shutdown_signals, last_start, watchdog_log>>

\* Faulty variant of stopped: stopping a service resets its restart_count.
stopped_reset(svc) ==
    [svc EXCEPT !.state = SVC_STOPPED, !.pid = 0, !.restart_count = 0]

\* The record stop_service leaves on both of its exits.
stopped(svc) == [svc EXCEPT !.state = SVC_STOPPED, !.pid = 0]

\* Faulty variant of polls_left: the poll loop is left out.
polls_left_none(n) == FALSE

\* stop_service: the test of its poll loop.
polls_left(n) == n < StopPolls

\* Where the caller of stop_service is once it has returned at p:
\* stop_all_services goes on with its loop, restart_service with its sleep
\* and start_service.
stop_returns(p) == IF p = "stop_poll" THEN "stop_all" ELSE "restart_start"

\* The loop index once stop_service has returned at p.
stop_returns_index(p, k) == IF p = "stop_poll" THEN k - 1 ELSE k

\* One iteration of stop_service's poll loop: usleep, then
\* waitpid(pid, &status, WNOHANG).
StopPoll ==
    /\ pc \in {"stop_poll", "restart_poll"}
    /\ polls_left(polls)
    /\ IF procs[services[i].pid].st = "zombie"
       THEN /\ procs' = Reaped(procs, services[i].pid)
            /\ services' = [services EXCEPT ![i] = stopped(services[i])]
            /\ pc' = stop_returns(pc)
            /\ i' = stop_returns_index(pc, i)
            /\ polls' = 0
       ELSE /\ polls' = polls + 1
            /\ UNCHANGED <<services, procs, pc, i>>
    /\ UNCHANGED <<current_runlevel, target_runlevel, loading, shutdown_requested,
                   reboot_requested, child_died, launches, reboot_cmd, ends,
                   shutdown_signals, history>>

\* stop_service after the poll loop: kill(pid, SIGKILL) and the blocking
\* waitpid; the death of the process raises SIGCHLD.
StopKill ==
    /\ pc \in {"stop_poll", "restart_poll"}
    /\ ~polls_left(polls)
    /\ stop_sigs' = Append(stop_sigs, "SIGKILL")
    /\ procs' = Reaped(procs, services[i].pid)
    /\ child_died' = IF procs[services[i].pid].st = "free" THEN child_died ELSE 1
    /\ services' = [services EXCEPT ![i] = stopped(services[i])]
    /\ pc' = stop_returns(pc)
    /\ i' = stop_returns_index(pc, i)
    /\ polls' = 0
    /\ UNCHANGED <<current_runlevel, target_runlevel, loading, shutdown_requested,
                   reboot_requested, launches, reboot_cmd, ends,
                   shutdown_signals, last_start, watchdog_log, shutdown_steps>>

\* do_shutdown: kill(-1, SIGTERM) and sleep(2).
BroadcastTerm ==
    /\ pc = "bcast_term"
    /\ shutdown_steps' = Append(shutdown_steps, "kill_SIGTERM")
    /\ pc' = "bcast_kill"
    /\ UNCHANGED <<services, current_runlevel, target_runlevel, loading,
                   shutdown_requested, reboot_requested, child_died, procs, i,
                   polls, launches, reboot_cmd, ends, shutdown_signals,
                   last_start, stop_sigs, watchdog_log>>

\* do_shutdown: kill(-1, SIGKILL) and sleep(1); every process left dies.
BroadcastKill ==
    /\ pc = "bcast_kill"
    /\ procs' = [p \in Pids |->
                   IF procs[p].st = "alive"
                   THEN [procs[p] EXCEPT !.st = "zombie"] ELSE procs[p]]
    /\ child_died' = IF \E p \in Pids : procs[p].st = "alive" THEN 1 ELSE child_died
    /\ shutdown_steps' = Append(shutdown_steps, "kill_SIGKILL")
    /\ pc' = "sync"
    /\ UNCHANGED <<services, current_runlevel, target_runlevel, loading,
                   shutdown_requested, reboot_requested, i, polls, launches,
                   reboot_cmd, ends, shutdown_signals, last_start, stop_sigs,
                   watchdog_log>>

\* Faulty variant of after_step: the reboot follows the first sync.
after_step_hasty(p) ==
    CASE p = "sync" -> "reboot"
      [] p = "umount" -> "sync2"
      [] p = "sync2" -> "reboot"

\* do_shutdown: where main is after the sync() or the umount calls at p.
after_step(p) ==
    CASE p = "sync" -> "umount"
      [] p = "umount" -> "sync2"
      [] p = "sync2" -> "reboot"

\* do_shutdown: sync(), the umount calls, sync() again.
SyncUnmount ==
    /\ pc \in {"sync", "umount", "sync2"}
    /\ shutdown_steps' =
          Append(shutdown_steps, IF pc = "umount" THEN "umount" ELSE "sync")
    /\ pc' = after_step(pc)
    /\ UNCHANGED <<services, current_runlevel, target_runlevel, loading,
                   shutdown_requested, reboot_requested, child_died, procs, i,
                   polls, launches, reboot_cmd, ends, shutdown_signals,
                   last_start, stop_sigs, watchdog_log>>

\* do_shutdown: the argument of reboot().
reboot_arg(requested) ==
    IF requested # 0 THEN "RESTART" ELSE "POWER_OFF"

\* Faulty variant of after_shutdown: main returns after do_shutdown.
after_shutdown_returns == "exited"

\* Faulty variant of after_shutdown: main goes back to its loop.
after_shutdown_again == "loop"

\* main: where it is once do_shutdown has returned: in while (1) pause().
after_shutdown == "pause"

\* do_shutdown: the reboot() call; if it returns, do_shutdown returns and
\* main parks in pause().
Reboot ==
    /\ pc = "reboot"
    /\ reboot_cmd' = reboot_arg(reboot_requested)
    /\ shutdown_steps' = Append(shutdown_steps, "reboot")
    /\ pc' = after_shutdown
    /\ UNCHANGED <<services, current_runlevel, target_runlevel, loading,
                   shutdown_requested, reboot_requested, child_died, procs, i,
                   polls, launches, ends, shutdown_signals, last_start,
                   stop_sigs, watchdog_log>>

\* ------------------------------------------------------------- environment

\* Faulty variant of HandlersInstalled: the handlers are installed before
\* the PID-1 check.
HandlersInstalledEarly == TRUE

\* Handlers are installed from the start of main() after the PID-1 check.
HandlersInstalled == pc \notin {"entry", "exited"}

\* The globals a handler could reach: the three flags, and what main keeps
\* of the services, the runlevel and the watchdog.
Reachable ==
    [child_died |-> child_died, shutdown_requested |-> shutdown_requested,
     reboot_requested |-> reboot_requested, services |-> services,
     current_runlevel |-> current_runlevel, watchdog_fd |-> watchdog_fd]

\* The globals are g once the handler has returned.
Handled(g) ==
    /\ child_died' = g.child_died
    /\ shutdown_requested' = g.shutdown_requested
    /\ reboot_requested' = g.reboot_requested
    /\ services' = g.services
    /\ current_runlevel' = g.current_runlevel
    /\ watchdog_fd' = g.watchdog_fd

sigchld_handler(g) == [g EXCEPT !.child_died = 1]

\* Faulty variant of sigterm_handler: the handler also drops the runlevel.
sigterm_handler_single(g) ==
    [g EXCEPT !.shutdown_requested = 1, !.reboot_requested = 0,
              !.current_runlevel = RUNLEVEL_SINGLE]

sigterm_handler(g) ==
    [g EXCEPT !.shutdown_requested = 1, !.reboot_requested = 0]

sigusr1_handler(g) ==
    [g EXCEPT !.shutdown_requested = 1, !.reboot_requested = 1]

\* Faulty variant of sig_ign: SIGINT and SIGHUP cancel a requested shutdown.
sig_ign_cancels(g) == [g EXCEPT !.shutdown_requested = 0]

\* SIG_IGN, the disposition of SIGINT and SIGHUP: nothing runs.
sig_ign(g) == g

\* A child of the supervisor exits; SIGCHLD runs sigchld_handler.
ChildExit ==
    /\ HandlersInstalled
    /\ \E p \in Pids :
          /\ procs[p].st = "alive"
          /\ procs' = [procs EXCEPT ![p].st = "zombie"]
    /\ Handled(sigchld_handler(Reachable))
    /\ UNCHANGED <<target_runlevel, loading, pc, i, polls, launches, reboot_cmd,
                   enable_watchdog, exit_code, shutdown_signals, history>>

\* The environment delivers shutdown signal sig: when it delivers just one,
\* shutdown_signals keeps its name and no other follows.
Delivered(sig) ==
    /\ shutdown_signals \in {"any", "one"}
    /\ shutdown_signals' = IF shutdown_signals = "one" THEN sig
                           ELSE shutdown_signals

\* SIGTERM is delivered: sigterm_handler.
SigTerm ==
    /\ HandlersInstalled
    /\ Delivered("SIGTERM")
    /\ Handled(sigterm_handler(Reachable))
    /\ UNCHANGED <<target_runlevel, loading, procs, pc, i, polls, launches, reboot_cmd,
                   enable_watchdog, exit_code, history>>

\* SIGUSR1 is delivered: sigusr1_handler.
SigUsr1 ==
    /\ HandlersInstalled
    /\ Delivered("SIGUSR1")
    /\ Handled(sigusr1_handler(Reachable))
    /\ UNCHANGED <<target_runlevel, loading, procs, pc, i, polls, launches, reboot_cmd,
                   enable_watchdog, exit_code, history>>

\* SIGINT or SIGHUP is delivered: both are ignored.
SigIgnored ==
    /\ HandlersInstalled
    /\ \E sig \in {"SIGINT", "SIGHUP"} : Handled(sig_ign(Reachable))
    /\ UNCHANGED <<target_runlevel, loading, procs, pc, i, polls, launches, reboot_cmd,
                   enable_watchdog, exit_code, shutdown_signals, history>>

Next ==
    \/ MainEntry
    \/ StartAll
    \/ StartServiceWait
    \/ MainLoop
    \/ ReapOne
    \/ ReapNone
    \/ ReapClear
    \/ CheckService
    \/ Exhausted
    \/ Respawn
    \/ Shutdown
    \/ StopAll
    \/ StopPoll
    \/ StopKill
    \/ BroadcastTerm
    \/ BroadcastKill
    \/ SyncUnmount
    \/ Reboot
    \/ ChildExit
    \/ SigTerm
    \/ SigUsr1
    \/ SigIgnored

\* ------------------------------------------------------------ load_services

\* The size of the name field of a service record.
MAX_NAME == 64

\* The number of records of the services table.
MAX_SERVICES == 32

\* The largest number of entries of the services directory.
MaxDirents == 3

\* The characters '0' to '9'.
Digits == {"0", "1", "2", "3", "4", "5", "6", "7", "8", "9"}

\* A file name of MAX_NAME characters that ends in c: a start-up script
\* whose name is one character longer than the name field can hold.
LongName(c) ==
    <<"S", "1">> \o [k \in 1..(MAX_NAME - 3) |-> "x"] \o <<c>>

\* The file names the services directory is drawn from: two start-up
\* scripts, a stop script and two long names that differ in their last
\* character.
FileNames ==
    {<<"S", "1">>, <<"S", "2">>, <<"K", "1">>, LongName("a"), LongName("b")}

\* The directories: up to MaxDirents entries in the order readdir returns
\* them, each a file name and whether stat() reports it executable; no two
\* entries of a directory have the same name.
Directories ==
    {d \in UNION {[1..n -> [d_name : FileNames, executable : BOOLEAN]] :
                    n \in 0..MaxDirents} :
        \A a, b \in DOMAIN d : d[a].d_name = d[b].d_name => a = b}

\* The characters '0' to '9' in order.
DigitChars == <<"0", "1", "2", "3", "4", "5", "6", "7", "8", "9">>

\* The name of the k-th start-up script of a full directory: S00, S01, ...
ScriptName(k) ==
    <<"S", DigitChars[(k \div 10) + 1], DigitChars[(k % 10) + 1]>>

\* A directory of MAX_SERVICES + 1 executable start-up scripts: one more
\* than the services table has records.
FullDirectory ==
    [k \in 1..(MAX_SERVICES + 1) |->
        [d_name |-> ScriptName(k - 1), executable |-> TRUE]]

\* load_services: the test for a start-up script, S followed by a digit.
is_script(d_name) ==
    Len(d_name) >= 2 /\ d_name[1] = "S" /\ d_name[2] \in Digits

\* strncpy(dst, src, n) into a zeroed field dst: the first n characters of
\* src.
strncpy(src, n) == SubSeq(src, 1, IF Len(src) < n THEN Len(src) ELSE n)

\* load_services: a record is created for the entry.
is_added(entry) == is_script(entry.d_name) /\ entry.executable

\* load_services: the names of the table once entry has been read.
loaded(table, entry) ==
    IF is_added(entry)
    THEN Append(table, strncpy(entry.d_name, MAX_NAME - 1))
    ELSE table

\* &services[service_count] is a record of the table.
in_table(table) == Len(table) < MAX_SERVICES

\* The tables load_services can leave once entry has been read.  A record
\* created at &services[MAX_SERVICES] is written over whatever the build has
\* placed after the table, service_count possibly included: service_count
\* can come out as any number up to MAX_SERVICES + 1.
load_results(table, entry) ==
    IF is_added(entry) /\ ~in_table(table)
    THEN {SubSeq(loaded(table, entry), 1, k) : k \in 0..(Len(table) + 1)}
    ELSE {loaded(table, entry)}

\* main() is about to call load_services on some directory.
InitLoad ==
    /\ dirents \in Directories \cup {FullDirectory}
    /\ pc = "load"
    /\ services = [s \in Svcs |-> ServiceDef(RUNLEVEL_FULL, {}, 0)]
    /\ current_runlevel = RUNLEVEL_SINGLE
    /\ enable_watchdog = 0
    /\ shutdown_signals = "any"
    /\ Fresh

\* One iteration of the readdir loop of load_services.
LoadEntry ==
    /\ pc = "load"
    /\ dirents # <<>>
    /\ names' \in load_results(names, Head(dirents))
    /\ dirents' = Tail(dirents)
    /\ UNCHANGED <<services, current_runlevel, target_runlevel,
                   shutdown_requested, reboot_requested, child_died, procs,
                   pc, i, polls, launches, reboot_cmd, ends, shutdown_signals,
                   history>>

\* readdir returns NULL: closedir, and load_services returns.
LoadDone ==
    /\ pc = "load"
    /\ dirents = <<>>
    /\ pc' = "loaded"
    /\ UNCHANGED <<services, current_runlevel, target_runlevel, loading,
                   shutdown_requested, reboot_requested, child_died, procs,
                   i, polls, launches, reboot_cmd, ends, shutdown_signals,
                   history>>

NextLoad == LoadEntry \/ LoadDone

\* load_services on every small directory and on a full one.
SpecLoad == InitLoad /\ [][NextLoad]_vars

\* ------------------------------------------------ start_service, called

\* The largest number of processes the calls fork in all.
MaxLaunches == 2

RECURSIVE Sum(_, _)
\* The sum of f over the set S.
Sum(f, S) ==
    IF S = {} THEN 0
    ELSE LET x == CHOOSE y \in S : TRUE IN f[x] + Sum(f, S \ {x})

\* Whether the caller makes a further call: it stops calling once
\* MaxLaunches processes have been forked.
CallsLeft == Sum(launches, Svcs) < MaxLaunches

\* The definitions start_service tells apart: of the flags it reads
\* SVC_FLAG_WAIT only, and neither the runlevel nor max_restarts.
CallDefs == {d \in ServiceDefs : d.flags \subseteq {SVC_FLAG_WAIT}}

\* A RESPAWN service as the main loop leaves it when it was respawned up to
\* its budget and the exit of its last process was collected by
\* reap_children: STOPPED, no pid, restart_count = max_restarts.
Respawned ==
    [ServiceDef(RUNLEVEL_NETWORK, {SVC_FLAG_RESPAWN}, MaxRestarts)
        EXCEPT !.restart_count = MaxRestarts]

\* main() has loaded the table and set the runlevel, and none of its services
\* has a process; start_service or restart_service is about to be called on
\* services of the table.
InitCalls ==
    /\ services \in [Svcs -> CallDefs \cup {Respawned}]
    /\ current_runlevel = RUNLEVEL_NETWORK
    /\ pc = "idle"
    /\ dirents = <<>>
    /\ enable_watchdog = 0
    /\ shutdown_signals = "any"
    /\ Fresh

\* start_service(&services[s]) is called, by the caller or at the end of
\* restart_service (after its sleep), up to its return or to the waitpid of
\* a WAIT service.
CallStartOf(s) ==
    /\ \/ pc = "idle" /\ CallsLeft
       \/ pc = "restart_start" /\ s = i
    /\ \E chk \in CommandChecks, fpid \in ForkResults :
          LET x_ok == passes(chk) IN
          /\ services' = [services EXCEPT
                            ![s] = start_service(services[s], x_ok, fpid)]
          /\ procs' = Forked(s, x_ok, fpid)
          /\ launches' = Launched(s, x_ok, fpid)
          /\ last_start' = Started(s, chk, fpid)
          /\ pc' = IF start_blocks(services[s], x_ok, fpid)
                   THEN "call_wait" ELSE "idle"
    /\ i' = s
    /\ UNCHANGED <<current_runlevel, target_runlevel, loading,
                   shutdown_requested, reboot_requested, child_died, polls,
                   reboot_cmd, ends, shutdown_signals, stop_sigs, watchdog_log,
                   shutdown_steps>>

\* start_service is called on some service of the table.
CallStart == \E s \in Svcs : CallStartOf(s)

\* The waitpid of the called start_service returns.
CallStartWait ==
    /\ pc = "call_wait"
    /\ procs[services[i].pid].st = "zombie"
    /\ \E status_ok \in BOOLEAN :
          /\ services' = [services EXCEPT
                            ![i] = start_service_waited(services[i], status_ok)]
          /\ last_start' = Waited(status_ok)
    /\ procs' = Reaped(procs, services[i].pid)
    /\ pc' = "idle"
    /\ UNCHANGED <<current_runlevel, target_runlevel, loading,
                   shutdown_requested, reboot_requested, child_died, i, polls,
                   launches, reboot_cmd, ends, shutdown_signals, stop_sigs,
                   watchdog_log, shutdown_steps>>

\* restart_service(&services[s]) is called, up to the return of its
\* stop_service call or to the kill(pid, SIGTERM) of that call.
CallRestartOf(s) ==
    /\ pc = "idle"
    /\ CallsLeft
    /\ IF stop_acts(services[s])
       THEN /\ services' = [services EXCEPT ![s].state = SVC_STOPPING]
            /\ stop_sigs' = <<"SIGTERM">>
            /\ pc' = "restart_poll"
       ELSE /\ stop_sigs' = <<>>
            /\ pc' = "restart_start"
            /\ UNCHANGED services
    /\ polls' = 0
    /\ i' = s
    /\ last_start' = NoStart
    /\ UNCHANGED <<current_runlevel, target_runlevel, loading,
                   shutdown_requested, reboot_requested, child_died, procs,
                   launches, reboot_cmd, ends, shutdown_signals, watchdog_log,
                   shutdown_steps>>

\* restart_service is called on some service of the table.
CallRestart == \E s \in Svcs : CallRestartOf(s)

NextCalls ==
    \/ CallStart
    \/ CallStartWait
    \/ CallRestart
    \/ StopPoll
    \/ StopKill
    \/ ChildExit

\* start_service and restart_service called on the services of every table
\* in every order, while their processes exit.
SpecCalls == InitCalls /\ [][NextCalls]_vars

\* The steps of main() itself, as opposed to those of its environment.
Main ==
    \/ MainEntry
    \/ StartAll
    \/ StartServiceWait
    \/ MainLoop
    \/ ReapOne
    \/ ReapNone
    \/ ReapClear
    \/ CheckService
    \/ Exhausted
    \/ Respawn
    \/ Shutdown
    \/ StopAll
    \/ StopPoll
    \/ StopKill
    \/ BroadcastTerm
    \/ BroadcastKill
    \/ SyncUnmount
    \/ Reboot

Spec == Init /\ [][Next]_vars

\* The supervisor with the watchdog enabled in its configuration.
SpecWatchdog == InitWatchdog /\ [][Next]_vars

\* The supervisor in an environment that delivers at most one shutdown
\* signal.
SpecOneSignal == InitOneSignal /\ [][Next]_vars

\* The supervisor on a scheduler that keeps running it: main() is a single
\* thread whose sleeps (usleep, sleep) are all bounded, so a step of main that
\* stays possible is eventually taken.  Nothing is assumed of the
\* environment: no child has to exit and no signal has to arrive.
SpecFair == InitFair /\ [][Next]_vars /\ WF_vars(Main)

\* ---------------------------------------------------------------- claims

\* A process forked for service s is alive.
LiveFor(s) == \E p \in Pids : procs[p].st = "alive" /\ procs[p].owner = s

HasPid(s) == services[s].pid # 0

\* C1: whenever main is at the head of its loop (start, stop, reap_children
\* and check_services have returned), a service has a pid recorded if and
\* only if its state is RUNNING or STOPPING.
C1_PidIffRunningOrStopping ==
    pc = "loop" =>
        \A s \in Svcs :
            HasPid(s) <=> services[s].state \in {SVC_RUNNING, SVC_STOPPING}

\* C2: a service whose state is FAILED has no live process that the
\* supervisor forked for it.
C2_FailedHasNoLiveProcess ==
    \A s \in Svcs : services[s].state = SVC_FAILED => ~LiveFor(s)

\* C2 witness: a service that had been launched and was RUNNING has been
\* marked FAILED by check_services.
C2_Witness ==
    \E s \in Svcs :
        /\ services[s].state = SVC_FAILED
        /\ launches[s] > 0
        /\ SVC_FLAG_WAIT \notin services[s].flags

\* C3: once shutdown_requested is set, the respawn policy launches no
\* process, also when the flag was set during the sleep before start_service.
C3_NoRespawnAfterShutdownRequested ==
    [][(shutdown_requested # 0 /\ pc = "respawn") => launches' = launches]_vars

\* C4: a RUNNING service with RESPAWN whose process was reaped by
\* reap_children is launched again by the check_services pass that follows:
\* when that pass has returned with shutdown not requested, no launched
\* RESPAWN service with budget left rests STOPPED with its pid cleared.
C4_ReapedRespawnServiceIsRelaunched ==
    (pc = "loop" /\ shutdown_requested = 0) =>
        \A s \in Svcs :
            ( /\ SVC_FLAG_RESPAWN \in services[s].flags
              /\ SVC_FLAG_WAIT \notin services[s].flags
              /\ launches[s] > 0
              /\ services[s].restart_count < services[s].max_restarts )
            => ~(services[s].state = SVC_STOPPED /\ services[s].pid = 0)

\* The step in which check_services has finished a respawn of service s:
\* start_service has returned and restart_count++ has run.
RespawnReturns(s) ==
    /\ pc \in {"respawn", "respawn_wait"}
    /\ pc' = "check"
    /\ s = i

\* The step in which check_services finds service s dead with its budget
\* exhausted.
BudgetExhausted(s) ==
    /\ pc = "exhausted"
    /\ s = i
    /\ services'[s].state = SVC_FAILED

\* C5 as claimed: restart_count grows by exactly one at every crash the
\* respawn policy handles, the crash that exhausts the budget included, and
\* changes at no other step.
C5_EveryObservedCrashCounts ==
    [][\A s \in Svcs :
          services'[s].restart_count =
              IF RespawnReturns(s) \/ BudgetExhausted(s)
              THEN services[s].restart_count + 1
              ELSE services[s].restart_count]_vars

\* C5 amended: restart_count grows by exactly one at every respawn attempt
\* (when start_service called by the respawn policy has returned) and changes
\* at no other step; the crash that exhausts the budget leaves it unchanged.
C5_EveryRespawnCounts ==
    [][\A s \in Svcs :
          services'[s].restart_count =
              IF RespawnReturns(s)
              THEN services[s].restart_count + 1
              ELSE services[s].restart_count]_vars

\* C5 witness: a service has been respawned: a second process was forked for
\* it and its restart_count is positive.
C5_Witness ==
    \E s \in Svcs :
        /\ services[s].restart_count > 0
        /\ launches[s] > 1

\* C6: at the head of the main loop, with shutdown not requested, a RESPAWN
\* service whose every start forked a process and which is no longer RUNNING
\* (it crashed every time) is FAILED with restart_count = max_restarts, so it
\* was respawned exactly max_restarts times.
C6_CrashLoopEndsFailedAtBudget ==
    (pc = "loop" /\ shutdown_requested = 0) =>
        \A s \in Svcs :
            ( /\ SVC_FLAG_RESPAWN \in services[s].flags
              /\ SVC_FLAG_WAIT \notin services[s].flags
              /\ launches[s] = services[s].restart_count + 1
              /\ services[s].state # SVC_RUNNING )
            => ( /\ services[s].state = SVC_FAILED
                 /\ services[s].restart_count = services[s].max_restarts )

\* C7: the step that marks a RESPAWN and CRITICAL service FAILED for having
\* exhausted its budget sets shutdown_requested and reboot_requested.
C7_CriticalExhaustionRequestsReboot ==
    [][\A s \in Svcs :
          ( /\ BudgetExhausted(s)
            /\ SVC_FLAG_CRITICAL \in services[s].flags )
          => (shutdown_requested' = 1 /\ reboot_requested' = 1)]_vars

\* C7 witness: check_services has just marked a CRITICAL service FAILED at
\* its exhausted budget and both flags are set.
C7_Witness ==
    \E s \in Svcs :
        /\ pc = "check"
        /\ i = s + 1
        /\ SVC_FLAG_CRITICAL \in services[s].flags
        /\ services[s].state = SVC_FAILED
        /\ launches[s] = services[s].restart_count + 1
        /\ shutdown_requested = 1
        /\ reboot_requested = 1

\* C8: shutdown_requested and reboot_requested change only when SIGTERM or
\* SIGUSR1 is delivered or when check_services marks a CRITICAL service
\* FAILED, and main leaves its loop for the shutdown only with
\* shutdown_requested set.
C8_ServiceFailuresNeverRequestShutdown ==
    [][ /\ ( \/ shutdown_requested' # shutdown_requested
             \/ reboot_requested' # reboot_requested )
           => ( \/ SigTerm
                \/ SigUsr1
                \/ ( /\ pc = "exhausted"
                     /\ i \in Svcs
                     /\ SVC_FLAG_CRITICAL \in services[i].flags
                     /\ services'[i].state = SVC_FAILED ) )
        /\ (pc # "shutdown" /\ pc' = "shutdown") => shutdown_requested # 0
      ]_vars

\* C8 witness: a RESPAWN service without CRITICAL is FAILED at its exhausted
\* budget, neither flag is set and main is at the head of its loop.
C8_Witness ==
    \E s \in Svcs :
        /\ pc = "loop"
        /\ SVC_FLAG_RESPAWN \in services[s].flags
        /\ SVC_FLAG_CRITICAL \notin services[s].flags
        /\ services[s].state = SVC_FAILED
        /\ launches[s] = services[s].restart_count + 1
        /\ services[s].restart_count = services[s].max_restarts
        /\ shutdown_requested = 0
        /\ reboot_requested = 0

\* C9: no step lowers the restart_count of a service.
C9_RestartCountNeverDecreases ==
    [][\A s \in Svcs :
          services'[s].restart_count >= services[s].restart_count]_vars

\* C9 witness: a service that had been respawned has been stopped by the
\* shutdown and the reboot call is reached with its count still positive.
C9_Witness ==
    \E s \in Svcs :
        /\ pc = "pause"
        /\ services[s].restart_count > 0
        /\ services[s].state = SVC_STOPPED
        /\ services[s].pid = 0

\* C10: from the startup pass on, a service whose runlevel is above
\* current_runlevel is STOPPED, has no pid and has never been launched.
C10_AboveRunlevelStaysStopped ==
    pc \notin {"entry", "exited"} =>
        \A s \in Svcs :
            services[s].runlevel > current_runlevel =>
                /\ services[s].state = SVC_STOPPED
                /\ services[s].pid = 0
                /\ launches[s] = 0
                /\ ~LiveFor(s)

\* C10 witness: the shutdown has run to the reboot call, one service is above
\* the runlevel and another one was launched.
C10_Witness ==
    \E s, o \in Svcs :
        /\ pc = "pause"
        /\ services[s].runlevel > current_runlevel
        /\ services[o].runlevel <= current_runlevel
        /\ launches[o] > 0

\* C11: when start_service has returned from a call on a service whose
\* command is not executable, in the startup pass or in a respawn, the service
\* is FAILED, no pid is recorded for it and the call forked no process.
C11_UnexecutableCommandFails ==
    ( /\ last_start.svc # 0
      /\ ~last_start.executable
      /\ pc \notin {"start_all_wait", "respawn_wait"} )
    => ( /\ services[last_start.svc].state = SVC_FAILED
         /\ services[last_start.svc].pid = 0
         /\ ~last_start.forked )

\* The step of main in which stop_service returns.
StopReturns == pc = "stop_poll" /\ pc' # "stop_poll"

\* C12: stop_service on a RUNNING service sends SIGTERM first; it sends
\* SIGKILL only after SIGTERM and 50 polls that did not reap the process; and
\* when it returns the service is STOPPED, its pid is cleared, the process
\* the pid named is reaped and no process forked for the service is left.
C12_StopTermThenKillAfterPolls ==
    [][ /\ ( /\ pc = "stop_all"
             /\ i \in Svcs
             /\ services[i].state = SVC_RUNNING
             /\ <<pc, i>>' # <<pc, i>> )
           => (stop_sigs' = <<"SIGTERM">> /\ pc' = "stop_poll")
        /\ pc = "stop_poll" => (stop_sigs = <<"SIGTERM">> /\ polls <= StopPolls)
        /\ stop_sigs' # stop_sigs
           => ( \/ stop_sigs' \in {<<>>, <<"SIGTERM">>}
                \/ ( /\ stop_sigs' = <<"SIGTERM", "SIGKILL">>
                     /\ stop_sigs = <<"SIGTERM">>
                     /\ polls = StopPolls ) )
        /\ StopReturns
           => ( /\ services'[i].state = SVC_STOPPED
                /\ services'[i].pid = 0
                /\ procs'[services[i].pid].st = "free"
                /\ \A p \in Pids : procs'[p].owner # i )
      ]_vars

\* C12 witness: stop_service has returned after the forced kill of a service
\* that had been launched.
C12_Witness ==
    /\ pc = "stop_all"
    /\ stop_sigs = <<"SIGTERM", "SIGKILL">>
    /\ i + 1 \in Svcs
    /\ services[i + 1].state = SVC_STOPPED
    /\ services[i + 1].pid = 0
    /\ launches[i + 1] > 0

\* C13: during stop_all_services the services are stopped one at a time from
\* the last to the first: while stop_service works on service i, and whenever
\* the loop is at i, no later service is RUNNING or STOPPING and no other
\* service is STOPPING.
C13_StopsInReverseOrder ==
    pc \in {"stop_all", "stop_poll"} =>
        /\ \A j \in Svcs :
              j > i => services[j].state \notin {SVC_RUNNING, SVC_STOPPING}
        /\ \A k \in Svcs :
              k # i => services[k].state # SVC_STOPPING

\* C13 witness: SIGTERM has been sent to the first service, which is being
\* polled, after the second one, which had been launched, was stopped.
C13_Witness ==
    /\ pc = "stop_poll"
    /\ i = 1
    /\ services[2].state = SVC_STOPPED
    /\ services[2].pid = 0
    /\ launches[2] > 0
    /\ SVC_FLAG_WAIT \notin services[2].flags
    /\ procs[services[1].pid].st = "alive"

\* The order of the steps of the shutdown.
ShutdownOrder ==
    <<"stop_watchdog", "stop_all_services", "kill_SIGTERM", "kill_SIGKILL",
      "sync", "umount", "sync", "reboot">>

IsPrefix(s, t) == Len(s) <= Len(t) /\ s = SubSeq(t, 1, Len(s))

\* C14: do_shutdown completes its steps in the order watchdog disabled,
\* services stopped, SIGTERM broadcast, SIGKILL broadcast, sync, unmount,
\* sync, reboot: the steps completed are always a prefix of that order, no
\* service is RUNNING or STOPPING once the services are stopped, and reboot()
\* has been called only when all the steps before it have run.
C14_ShutdownStepsInOrder ==
    /\ IsPrefix(shutdown_steps, ShutdownOrder)
    /\ Len(shutdown_steps) >= 1 => watchdog_fd = -1
    /\ Len(shutdown_steps) >= 2 =>
          \A s \in Svcs :
              services[s].state \notin {SVC_RUNNING, SVC_STOPPING}
    /\ reboot_cmd # "none" => shutdown_steps = ShutdownOrder

\* C14 witness: reboot() has been called after a shutdown that closed the
\* watchdog and stopped a launched service.
C14_Witness ==
    /\ reboot_cmd # "none"
    /\ shutdown_steps = ShutdownOrder
    /\ watchdog_log = <<"V", "close">>
    /\ \E s \in Svcs : launches[s] > 0 /\ services[s].state = SVC_STOPPED

\* C15: reboot() is called with RESTART if reboot_requested is set at that
\* moment and with POWER_OFF otherwise; when exactly one shutdown signal has
\* been delivered by then, SIGTERM gives POWER_OFF and SIGUSR1 gives RESTART.
C15_OneSignalDecidesRebootCode ==
    [][(pc = "reboot" /\ pc' # "reboot")
         => ( /\ reboot_cmd' = IF reboot_requested # 0
                               THEN "RESTART" ELSE "POWER_OFF"
              /\ shutdown_signals = "SIGTERM" => reboot_cmd' = "POWER_OFF"
              /\ shutdown_signals = "SIGUSR1" => reboot_cmd' = "RESTART" )
      ]_vars

\* C16: once the PID-1 check has passed, main never returns, whatever signals
\* arrive: it stays in the startup, the main loop, the shutdown or the pause
\* loop, and once in the pause loop it stays there.
C16_NeverExitsOncePid1 ==
    [][ /\ pc \notin {"entry", "exited"}
           => (pc' # "exited" /\ exit_code' = -1)
        /\ pc = "pause" => pc' = "pause"
      ]_vars

\* C16 witness: reboot() has returned, main is in the pause loop and a
\* SIGUSR1 has arrived since.
C16_Witness ==
    /\ pc = "pause"
    /\ reboot_cmd = "POWER_OFF"
    /\ reboot_requested = 1

\* C17: when main has returned because the process is not process 1, the exit
\* code is not zero and nothing else has happened: no handler has run, the
\* watchdog is not open, the runlevel is unchanged, every service is as
\* loaded and no process was forked.
C17_NotPid1ReturnsAtOnce ==
    pc = "exited" =>
        /\ exit_code > 0
        /\ shutdown_requested = 0 /\ reboot_requested = 0 /\ child_died = 0
        /\ watchdog_fd = -1
        /\ current_runlevel = RUNLEVEL_SINGLE
        /\ \A s \in Svcs :
              /\ services[s].state = SVC_STOPPED
              /\ services[s].pid = 0
              /\ launches[s] = 0
        /\ \A p \in Pids : procs[p].st = "free"

\* C17 witness: main has returned 1.
C17_Witness == pc = "exited" /\ exit_code = 1

\* C18: a lost child-death notification is healed by the liveness probe:
\* when a pass of check_services has returned and child_died is clear, no
\* RUNNING service is left whose process has exited.
C18_LostNotificationIsHealedByProbe ==
    (pc = "loop" /\ child_died = 0) =>
        \A s \in Svcs :
            services[s].state = SVC_RUNNING
                => procs[services[s].pid].st # "zombie"

\* The part of main's loop between its head and kick_watchdog.
InIteration ==
    pc \in {"reap", "reap_clear", "check", "respawn", "respawn_wait",
            "exhausted"}

\* C19: while the watchdog is open, an iteration of the main loop writes one
\* keepalive, at its end; the shutdown writes the disable byte and then
\* closes the device before stop_service is called on any service; and
\* nothing is written once the device is disabled.
C19_OneKeepalivePerIterationThenDisabled ==
    [][ /\ InIteration => watchdog_log = <<>>
        /\ (pc = "check" /\ pc' = "loop")
           => watchdog_log' = IF watchdog_fd >= 0 THEN <<"k">> ELSE <<>>
        /\ (pc = "shutdown" /\ pc' # "shutdown" /\ watchdog_fd >= 0)
           => (watchdog_log' = <<"V", "close">> /\ watchdog_fd' = -1)
        /\ (\E s \in Svcs : services'[s].state = SVC_STOPPING)
           => (watchdog_fd' = -1 /\ shutdown_steps'[1] = "stop_watchdog")
        /\ (\E n \in 1..Len(watchdog_log) : watchdog_log[n] = "V")
           => watchdog_log' = watchdog_log
      ]_vars

\* C19 witness: stop_service polls a service after the watchdog, which was
\* open, has been disabled and closed.
C19_Witness ==
    /\ pc = "stop_poll"
    /\ watchdog_log = <<"V", "close">>
    /\ watchdog_fd = -1

\* C20: a FAILED service stays FAILED and no process is forked for it, at
\* every step of main and of the handlers.
C20_FailedIsTerminal ==
    [][\A s \in Svcs :
          services[s].state = SVC_FAILED
              => ( /\ services'[s].state = SVC_FAILED
                   /\ launches'[s] = launches[s] )]_vars

\* C20 witness: reap_children has cleared the stale pid of a WAIT service
\* that is FAILED, and left it FAILED.
C20_Witness ==
    \E s \in Svcs :
        /\ services[s].state = SVC_FAILED
        /\ SVC_FLAG_WAIT \in services[s].flags
        /\ launches[s] > 0
        /\ services[s].pid = 0

\* main is inside its loop: at the loop test, in reap_children or in
\* check_services.
InMainLoop ==
    pc \in {"loop", "reap", "reap_clear", "check", "respawn", "respawn_wait",
            "exhausted"}

\* C21: whenever shutdown_requested is set while main is in its loop, the
\* shutdown sequence runs and reboot() is eventually called, whatever the
\* services and the respawn policy are doing.
C21_ShutdownRequestLeadsToReboot ==
    (InMainLoop /\ shutdown_requested # 0) ~> (reboot_cmd # "none")

\* C21 happens: a service was respawned, which only the loop does and only
\* while shutdown_requested is clear, and reboot() has been called since.
C21_Witness ==
    /\ reboot_cmd # "none"
    /\ \E s \in Svcs : services[s].restart_count > 0
    /\ shutdown_steps # <<>>

\* A signal is delivered: a handler runs, or the signal is ignored.
SignalStep == ChildExit \/ SigTerm \/ SigUsr1 \/ SigIgnored

\* C22: a signal delivered at any point leaves the service table,
\* current_runlevel and the watchdog descriptor as they are, and main where
\* it is; it changes no flag but child_died, shutdown_requested and
\* reboot_requested, which take the values 0 and 1 only; and SIGINT and
\* SIGHUP change nothing at all.
C22_HandlersChangeOnlyFlags ==
    [][/\ SignalStep =>
            /\ UNCHANGED <<services, current_runlevel, watchdog_fd>>
            /\ UNCHANGED <<target_runlevel, pc, i, polls, enable_watchdog,
                           exit_code, reboot_cmd>>
            /\ {child_died', shutdown_requested', reboot_requested'}
                   \subseteq {0, 1}
       /\ SigIgnored => UNCHANGED vars]_vars

\* C22 happens: SIGTERM and SIGCHLD have been handled (only sigterm_handler
\* leaves shutdown_requested set with reboot_requested clear) while main is
\* in its loop with a service RUNNING.
C22_Witness ==
    /\ InMainLoop
    /\ shutdown_requested = 1 /\ reboot_requested = 0 /\ child_died = 1
    /\ current_runlevel = target_runlevel
    /\ \E s \in Svcs : services[s].state = SVC_RUNNING

\* C23: the table load_services builds never holds two services with the
\* same name.
C23_NoDuplicateNames ==
    \A a, b \in DOMAIN names : names[a] = names[b] => a = b

\* The step in which check_services has found service s dead and has run
\* the tests of the respawn policy on it.
PolicyDecides(s) ==
    /\ pc = "check"
    /\ pc' \in {"respawn", "exhausted"}
    /\ s = i

\* C24 as claimed: the respawn policy increments restart_count and then
\* compares: the service is started again exactly if restart_count + 1 <
\* max_restarts, and is FAILED otherwise.
C24_IncrementThenCompare ==
    [][\A s \in Svcs :
          PolicyDecides(s) =>
              ((pc' = "respawn") <=>
                  (services[s].restart_count + 1 < services[s].max_restarts))
      ]_vars

\* C24 amended: the respawn policy compares and then increments: the service
\* is started again exactly if restart_count < max_restarts as it stood when
\* the exit was found, restart_count is incremented once start_service has
\* returned, and a service found at its budget is FAILED with restart_count
\* as it was.
C24_CompareThenIncrement ==
    [][\A s \in Svcs :
          /\ PolicyDecides(s) =>
                /\ (pc' = "respawn") <=>
                      (services[s].restart_count < services[s].max_restarts)
                /\ services'[s].restart_count = services[s].restart_count
          /\ RespawnReturns(s) =>
                /\ services[s].restart_count < services[s].max_restarts
                /\ services'[s].restart_count = services[s].restart_count + 1
          /\ BudgetExhausted(s) =>
                /\ services[s].restart_count >= services[s].max_restarts
                /\ services'[s].restart_count = services[s].restart_count
      ]_vars

\* C24 happens: a service has been respawned up to its budget: the last
\* respawn found restart_count + 1 = max_restarts and still started it.
C24_Witness ==
    \E s \in Svcs :
        /\ services[s].max_restarts > 0
        /\ services[s].restart_count = services[s].max_restarts
        /\ launches[s] = services[s].max_restarts + 1
        /\ services[s].state = SVC_RUNNING

\* What check_services makes of service s if its probe finds it dead: the
\* record it leaves before the respawn policy, and what the policy decides.
ProbePath(s) ==
    [record |-> marked_dead(services[s]),
     decision |-> IF ~respawn_wanted(services[s], shutdown_requested)
                  THEN "none"
                  ELSE IF budget_left(services[s]) THEN "respawn" ELSE "fail"]

\* What reap_children makes of service s if waitpid returns its pid: the
\* record it leaves; it runs no respawn policy.
ReapPath(s) ==
    [record |-> reap_update(services, services[s].pid)[s],
     decision |-> "none"]

\* C25: a RUNNING service found dead is left in the same record, with the
\* same respawn decision, by the probe of check_services as by
\* reap_children.
C25_ProbeAndReapAgree ==
    \A s \in Svcs :
        ( /\ services[s].state = SVC_RUNNING
          /\ services[s].pid > 0
          /\ \A t \in Svcs : services[t].pid = services[s].pid => t >= s )
        => ProbePath(s) = ReapPath(s)

\* main is blocked in the waitpid of start_service.
StartWaiting == pc \in {"start_all_wait", "respawn_wait"}

\* C26: a start_service call that forked a process for a WAIT service is
\* blocked, the service STARTING, for as long as the process has not been
\* collected; when it has returned the process is gone and the service is
\* STOPPED with result 0 if it exited with status 0, and FAILED with result
\* -1 otherwise, never RUNNING.  A call that forked a process for a service
\* without WAIT has returned 0 at once, the service RUNNING with the pid of
\* that process recorded.
C26_StartWaitsForWaitServices ==
    LET s == last_start.svc IN
    (s # 0 /\ last_start.forked) =>
        LET svc == services[s] IN
        IF SVC_FLAG_WAIT \in svc.flags
        THEN IF StartWaiting
             THEN /\ svc.state = SVC_STARTING
                  /\ procs[svc.pid].st # "free"
                  /\ procs[svc.pid].owner = s
             ELSE /\ procs[svc.pid].st = "free"
                  /\ svc.state # SVC_RUNNING
                  /\ IF last_start.status_ok
                     THEN svc.state = SVC_STOPPED /\ last_start.result = 0
                     ELSE svc.state = SVC_FAILED /\ last_start.result = -1
        ELSE /\ ~StartWaiting
             /\ svc.state = SVC_RUNNING
             /\ last_start.result = 0
             /\ svc.pid > 0
             /\ procs[svc.pid].st # "free"
             /\ procs[svc.pid].owner = s

\* C26 happens: start_service has returned -1 for a WAIT service whose
\* process exited with a failure, while a service without WAIT started
\* before it is RUNNING.
C26_Witness ==
    /\ last_start.svc # 0
    /\ last_start.forked
    /\ ~StartWaiting
    /\ SVC_FLAG_WAIT \in services[last_start.svc].flags
    /\ ~last_start.status_ok
    /\ services[last_start.svc].state = SVC_FAILED
    /\ \E t \in Svcs : services[t].state = SVC_RUNNING

\* start_service has been called for service s: it forked a process for it
\* or left it FAILED.
Attempted(s) == launches[s] > 0 \/ services[s].state = SVC_FAILED

\* C27: during the startup pass a step touches no service but the one being
\* started; a start that fails leaves that service FAILED and the pass goes
\* on with the next service; and when the pass ends, in the main loop,
\* start_service has been called for every eligible service.
C27_FailedStartDoesNotStopThePass ==
    [][(pc \in {"start_all", "start_all_wait"}) =>
          /\ \A s \in Svcs \ {i} : services'[s] = services[s]
          /\ \A s \in Svcs :
                ( /\ s = i
                  /\ services[s].state # SVC_FAILED
                  /\ services'[s].state = SVC_FAILED )
                => (pc' = "start_all" /\ i' = s + 1)
          /\ pc' # "start_all" => pc' \in {"start_all_wait", "loop"}
          /\ pc' = "loop" =>
                \A s \in Svcs :
                    eligible(services'[s], current_runlevel') =>
                        (launches'[s] > 0 \/ services'[s].state = SVC_FAILED)
      ]_vars

\* C27 happens: main is in its loop, the start of the first service failed
\* before any process was forked for it, and the service after it was
\* started and is RUNNING.
C27_Witness ==
    /\ pc = "loop"
    /\ services[1].state = SVC_FAILED
    /\ launches[1] = 0
    /\ \E s \in Svcs : s > 1 /\ services[s].state = SVC_RUNNING

\* A process forked for service s has not been collected.
HasProcess(s) ==
    \E p \in Pids : procs[p].st # "free" /\ procs[p].owner = s

\* C28: during the startup pass the services after the one being started
\* are untouched and the one about to be started has no process yet, no
\* service is started twice, and a WAIT service before the current one has
\* exited and been collected: no later service is launched while it runs.
C28_StartsInRegistryOrder ==
    (pc \in {"start_all", "start_all_wait"}) =>
        \A s \in Svcs :
            /\ launches[s] <= 1
            /\ (s > i \/ (s = i /\ pc = "start_all")) =>
                  /\ launches[s] = 0
                  /\ services[s].state = SVC_STOPPED
                  /\ services[s].pid = 0
            /\ (s < i /\ SVC_FLAG_WAIT \in services[s].flags) =>
                  /\ ~HasProcess(s)
                  /\ services[s].state \in {SVC_STOPPED, SVC_FAILED}
            /\ (s = i /\ pc = "start_all_wait") =>
                  /\ SVC_FLAG_WAIT \in services[s].flags
                  /\ launches[s] = 1

\* C28 happens: the pass has started a WAIT service and then the service
\* after it, whose process runs.
C28_Witness ==
    /\ pc = "start_all"
    /\ \E s \in Svcs :
          /\ s + 1 \in Svcs
          /\ s + 1 < i
          /\ SVC_FLAG_WAIT \in services[s].flags
          /\ launches[s] = 1
          /\ launches[s + 1] = 1
          /\ LiveFor(s + 1)

\* The step of the caller in which start_service is called on service s:
\* the caller is idle, the step is not the exit of a child, and i keeps the
\* service called.
StartCalled(s) ==
    /\ pc = "idle"
    /\ pc' \in {"idle", "call_wait"}
    /\ ~ChildExit
    /\ i' = s

\* C29: start_service called on a service that is RUNNING returns 0, forks
\* no process and leaves the service table, and with it the state, the pid
\* and the restart_count of the service, as it was.
C29_StartOnRunningIsNoOp ==
    [][\A s \in Svcs :
          (StartCalled(s) /\ services[s].state = SVC_RUNNING) =>
              /\ services' = services
              /\ procs' = procs
              /\ launches' = launches
              /\ pc' = "idle"
              /\ ~last_start'.forked
              /\ last_start'.result = 0]_vars

\* C29 happens: the start_service call that has just returned 0 forked
\* nothing for a service that is RUNNING with the process of its only
\* launch.
C29_Witness ==
    /\ pc = "idle"
    /\ last_start.svc # 0
    /\ ~last_start.forked
    /\ last_start.result = 0
    /\ services[last_start.svc].state = SVC_RUNNING
    /\ launches[last_start.svc] = 1
    /\ LiveFor(last_start.svc)

\* C30: stop_service called by the stop pass on a service that is not
\* RUNNING sends no signal, collects no process and leaves the service
\* table as it is, and the pass goes on; throughout the pass a service that
\* is STOPPED or FAILED keeps its record, so a FAILED service is FAILED
\* when the pass has ended.
C30_StopOnNotRunningIsNoOp ==
    [][/\ ( /\ StopAll
            /\ i \in Svcs
            /\ services[i].state # SVC_RUNNING )
          => /\ services' = services
             /\ procs' = procs
             /\ stop_sigs' = <<>>
             /\ polls' = polls
             /\ pc' = "stop_all"
             /\ i' = i - 1
       /\ (pc \in {"stop_all", "stop_poll"}) =>
             \A s \in Svcs :
                 services[s].state \in {SVC_STOPPED, SVC_FAILED}
                     => services'[s] = services[s]]_vars

\* C30 happens: the stop pass has ended; it stopped a service that was
\* RUNNING and passed over a FAILED one, which is FAILED still with the pid
\* it had.
C30_Witness ==
    /\ pc = "bcast_term"
    /\ \E s, t \in Svcs :
          /\ services[s].state = SVC_FAILED
          /\ services[s].pid # 0
          /\ services[t].state = SVC_STOPPED
          /\ launches[t] > 0
          /\ SVC_FLAG_WAIT \notin services[t].flags

\* C31: restart_service never changes restart_count; its stop_service call
\* forks nothing; when that call has returned the service is not RUNNING
\* and no process forked for it is left, so the old process is collected
\* before start_service forks the new one; and the process then forked is
\* one for the same service.
C31_RestartStopsThenStarts ==
    [][/\ \A s \in Svcs :
             services'[s].restart_count = services[s].restart_count
       /\ (pc' \in {"restart_poll", "restart_start"} /\ pc # "restart_start")
             => launches' = launches
       /\ (pc' = "restart_start") =>
             /\ services'[i'].state \in {SVC_STOPPED, SVC_FAILED}
             /\ \A p \in Pids :
                   procs'[p].owner = i' => procs'[p].st = "free"
       /\ (pc = "restart_start" /\ launches' # launches) =>
             /\ launches' = [launches EXCEPT ![i] = @ + 1]
             /\ services'[i].pid # 0
             /\ procs'[services'[i].pid].st = "alive"
             /\ procs'[services'[i].pid].owner = i]_vars

\* C31 happens: a service that had been respawned was started and then
\* restarted: SIGTERM went to its first process, a second process was forked
\* for it and is the only one it has, and restart_count is what it was.
C31_Witness ==
    /\ pc = "idle"
    /\ \E s \in Svcs :
          /\ last_start.svc = s
          /\ last_start.forked
          /\ launches[s] = 2
          /\ stop_sigs # <<>>
          /\ services[s].state = SVC_RUNNING
          /\ services[s].restart_count = MaxRestarts
          /\ services[s].restart_count > 0
          /\ Cardinality({p \in Pids : procs[p].owner = s
                                          /\ procs[p].st # "free"}) = 1

\* How far main is in the shutdown sequence: 0 before do_shutdown, then the
\* number of the stage: stop_watchdog, the stop pass, the two broadcasts,
\* sync, the umount calls, sync, reboot and the final pause loop.
ShutdownStage(p) ==
    CASE p = "shutdown" -> 1
      [] p \in {"stop_all", "stop_poll"} -> 2
      [] p = "bcast_term" -> 3
      [] p = "bcast_kill" -> 4
      [] p = "sync" -> 5
      [] p = "umount" -> 6
      [] p = "sync2" -> 7
      [] p = "reboot" -> 8
      [] p = "pause" -> 9
      [] OTHER -> 0

\* The number of times do_shutdown has completed step name.
TimesDone(name) ==
    Cardinality({k \in DOMAIN shutdown_steps : shutdown_steps[k] = name})

\* C32: once the shutdown sequence has started, no step, a signal delivery
\* included, takes main back to an earlier stage or out of the sequence;
\* once the stop pass has ended no service record changes and stop_service
\* sends no further signal; and do_shutdown runs each of its steps once
\* (sync twice) in the whole run.
C32_ShutdownRunsOnce ==
    [][/\ ShutdownStage(pc) > 0 =>
             ShutdownStage(pc') >= ShutdownStage(pc)
       /\ ShutdownStage(pc) > 2 =>
             /\ services' = services
             /\ stop_sigs' = stop_sigs
       /\ \A name \in {"stop_watchdog", "stop_all_services", "kill_SIGTERM",
                        "kill_SIGKILL", "umount", "reboot"} :
             TimesDone(name) <= 1
       /\ TimesDone("sync") <= 2]_vars

\* C32 happens: reboot() was called with POWER_OFF, so reboot_requested was
\* clear then; it is set now and so is child_died: SIGUSR1 and SIGCHLD were
\* delivered after the sequence had started, and main rests in pause().
C32_Witness ==
    /\ pc = "pause"
    /\ reboot_cmd = "POWER_OFF"
    /\ reboot_requested = 1
    /\ child_died = 1
    /\ TimesDone("stop_all_services") = 1
    /\ \E s \in Svcs : launches[s] > 0

\* check_services has escalated: a CRITICAL service that had a process is
\* FAILED, which only the step that finds its budget exhausted brings about
\* (a failed start of the startup pass leaves a service without any launch).
Escalated ==
    \E s \in Svcs :
        /\ SVC_FLAG_CRITICAL \in services[s].flags
        /\ services[s].state = SVC_FAILED
        /\ launches[s] > 0

\* C33: when check_services has escalated the failure of a CRITICAL service,
\* reboot() is called with RESTART whatever signals were delivered before
\* the call.
C33_EscalationEndsInRestart ==
    (Escalated /\ reboot_cmd # "none") => reboot_cmd = "RESTART"

\* C34: while main is in its loop no exited child is left without a pending
\* notification: whenever child_died is clear, every child that has exited
\* has been collected.  (The loop calls reap_children only when child_died
\* is set, so a child that is a zombie while the flag is clear stays one
\* for as long as no other child exits.)
C34_NoChildLeftUnreaped ==
    (InMainLoop /\ child_died = 0) =>
        \A p \in Pids : procs[p].st # "zombie"

\* The processes launched for service s that are alive.
LiveProcesses(s) ==
    {p \in Pids : procs[p].st = "alive" /\ procs[p].owner = s}

\* C35: at most one process launched for a given service is alive; a fork
\* of start_service beside a live process of the same service would leave
\* two.
C35_AtMostOneLiveProcess ==
    \A s \in Svcs : Cardinality(LiveProcesses(s)) <= 1

\* C35 witness: a service has been launched a second time and its process
\* is alive.
C35_Witness ==
    \E s \in Svcs : launches[s] >= 2 /\ Cardinality(LiveProcesses(s)) = 1

\* C36: when reboot() has been called every service of the registry is
\* STOPPED or FAILED, a respawned service included: no service is left
\* RUNNING, STARTING or STOPPING.
C36_AllStoppedAtReboot ==
    reboot_cmd # "none" =>
        \A s \in Svcs : services[s].state \in {SVC_STOPPED, SVC_FAILED}

\* C36 witness: reboot() has been called, and a service that had been
\* respawned is STOPPED with no pid.
C36_Witness ==
    /\ reboot_cmd # "none"
    /\ \E s \in Svcs : /\ launches[s] >= 2
                       /\ services[s].state = SVC_STOPPED
                       /\ services[s].pid = 0

\* Service s has no RESPAWN flag, was launched, and its process has exited
\* and been collected.
ExitedUnrespawned(s) ==
    /\ SVC_FLAG_RESPAWN \notin services[s].flags
    /\ launches[s] > 0
    /\ ~HasProcess(s)

Budget(svc) == IF svc.max_restarts > 0 THEN svc.max_restarts ELSE 0

\* C38: restart_count of every service is between 0 and
\* max(0, max_restarts).
C38_RestartCountWithinBudget ==
    \A s \in Svcs :
        /\ 0 <= services[s].restart_count
        /\ services[s].restart_count <= Budget(services[s])

\* C38 witness: a service has been respawned as often as its budget allows:
\* its restart_count has reached max_restarts and its last process is
\* running.
C38_Witness ==
    \E s \in Svcs :
        /\ services[s].max_restarts > 0
        /\ services[s].restart_count = services[s].max_restarts
        /\ launches[s] = services[s].max_restarts + 1
        /\ services[s].state = SVC_RUNNING

\* C39: shutdown_requested is monotonic: no step takes it from 1 back to 0.
C39_ShutdownRequestedIsMonotonic ==
    [][shutdown_requested # 0 => shutdown_requested' # 0]_vars

\* C39 witness: the critical-service escalation set both flags, a later
\* SIGTERM cleared reboot_requested, and shutdown_requested is still 1.
C39_Witness ==
    /\ Escalated
    /\ shutdown_requested = 1
    /\ reboot_requested = 0

\* C40: load_services never makes service_count exceed MAX_SERVICES, and
\* whenever it is about to create a record for a directory entry, the
\* record &services[service_count] lies inside the table.
C40_LoadStaysInsideTable ==
    /\ Len(names) <= MAX_SERVICES
    /\ (pc = "load" /\ dirents # <<>> /\ is_added(Head(dirents)))
          => in_table(names)

====
